---- MODULE Spec2Model ----
(***************************************************************************)
(* Model of the screenshot overlay (Windows_and_Linux/ScreenshotTool.py)   *)
(* and of the AI provider adapters (Windows_and_Linux/aiprovider.py).      *)
(*                                                                         *)
(* SpecOverlay  : the ScreenshotTool widget, its input handlers and the    *)
(*                one-shot timer callbacks it schedules.                   *)
(* SpecProvider : one provider instance, get_response run step by step,    *)
(*                with cancel() arriving between the steps.                *)
(* SpecConfig   : load_config and before_load of one provider instance.    *)
(* SpecOverlap  : two streaming get_response calls on one provider         *)
(*                instance, made from two threads.                         *)
(* SpecChat     : the analysis windows (ui/ImageAnalysisWindow.py) the     *)
(*                capture listener opens, and analyze_image.               *)
(***************************************************************************)
EXTENDS Integers, Sequences, FiniteSets, TLC

\* ------------------------------------------------------------------ bounds
\* Overlay-local pointer coordinates range over 0..MaxX by 0..MaxY.
MaxX == 3
MaxY == 1
\* Number of captures (deferred callbacks) one behaviour may schedule.
MaxCaptures == 2
\* Wall-clock seconds 0..MaxTime (the timestamp in the file name).
MaxTime == 1
\* Number of fragments a backend response holds at most.
MaxFrags == 2
\* Number of get_response calls one behaviour may start.
MaxCalls == 2
\* Number of load_config calls one behaviour may make.
MaxLoads == 2
\* Number of analysis windows one behaviour may open.
MaxWindows == 2
\* Number of non-empty questions one behaviour may send.
MaxQuestions == 2

VARIABLES
    \* ---- ScreenshotTool
    begin,          \* self.begin  (QPoint)
    end,            \* self.end    (QPoint)
    is_selecting,   \* self.is_selecting
    visible,        \* the widget is shown (show() by the caller, hide(), close())
    closed,         \* close() has been called on the widget
    timers,         \* outstanding QTimer.singleShot callbacks, each holding its region
    files,          \* log of file writes: [path, region, complete]
    emitted,        \* log of screenshot_taken emissions (the path carried)
    now,            \* the wall-clock second datetime.now() returned last
    fired,          \* number of deferred callbacks that have run
    lastEvent,      \* history: the handler that ran last
    aborted,        \* history: an Escape key press has been handled
    \* ---- AIProvider (one instance) and the get_response call in progress
    variant,        \* the provider class: "gemini" or "openai"
    streaming,      \* self.app.config.get("streaming", False)
    close_requested,\* self.close_requested: "None", "False" or "True"
    pc,             \* where the get_response call in progress stands
    blocked,        \* the backend's content filter rejects the current request
    upstream,       \* fragments the backend has not yet delivered
    chunk,          \* the loop variable: the fragment in hand
    signals,        \* notifications surfaced by the current call, in order
    sent,           \* history: all fragments the backend holds for this call
    consumed,       \* history: fragments pulled from the backend by this call
    exit,           \* history: how the current call's loop ended
    outcome,        \* history: "returned" or "raised" once the call is over
    calls,          \* history: number of get_response calls started
    \* ---- AIProvider: settings and the client/model handle
    attrs,          \* the provider attribute of each setting's name
    stored,         \* each setting's internal_value
    handle,         \* self.model (Gemini) / self.client (OpenAI)
    replaced,       \* history: the handle after_load overwrote last
    loads,          \* history: number of load_config calls made
    \* ---- ImageAnalysisWindow instances and analyze_image
    windows,        \* the analysis windows alive: [path, transcript]
    placeholderMatches, \* the placeholder's markup occurs verbatim in toHtml()
    forwarded,      \* history: the analyze_image calls made
    lastAnalysis,   \* history: how the last analyze_image call ended
    asked,          \* history: number of non-empty questions sent
    \* ---- a second get_response call on the same provider instance
    pc2,            \* where the second call stands
    upstream2,      \* fragments the backend has not yet delivered to it
    chunk2,         \* its loop variable
    wire,           \* history: every notification surfaced, with its call
    \* ---- history of cancel() relative to the get_response calls
    cancelSeen      \* "idle": cancel() came while no call ran; "absorbed": the
                    \* call in hand started after such a cancel(); "during":
                    \* cancel() came while the call in hand ran; else "none"

overlayVars ==
    <<begin, end, is_selecting, visible, closed, timers, files, emitted,
      now, fired, lastEvent, aborted>>

providerVars ==
    <<variant, streaming, close_requested, pc, blocked, upstream, chunk,
      signals, sent, consumed, exit, outcome, calls>>

configVars == <<attrs, stored, handle, replaced, loads>>

chatVars == <<windows, placeholderMatches, forwarded, lastAnalysis, asked>>

overlapVars == <<pc2, upstream2, chunk2, wire>>

extraVars == <<configVars, chatVars, overlapVars, cancelSeen>>

vars == <<overlayVars, providerVars, extraVars>>

\* ------------------------------------------------------------ Qt geometry
Coords == (0 .. MaxX) \X (0 .. MaxY)
Points == { [x |-> c[1], y |-> c[2]] : c \in Coords }

\* QPoint(): the null point.
QPoint0 == [x |-> 0, y |-> 0]

\* QPoint.isNull()
isNull(p) == p.x = 0 /\ p.y = 0

\* bool(QPoint): PySide6 computes the truth value of a class that has isNull()
\* as "not isNull()".
Truthy(p) == ~isNull(p)

\* QRect(topLeft, bottomRight): corners are inclusive.
QRect(p, q) == [x1 |-> p.x, y1 |-> p.y, x2 |-> q.x, y2 |-> q.y]

\* Mutant of normalized: the corners are also swapped when they coincide.
normalized_SwapsOnEqual(r) ==
    LET xs == IF r.x2 <= r.x1 THEN <<r.x2 + 1, r.x1 - 1>> ELSE <<r.x1, r.x2>>
        ys == IF r.y2 <= r.y1 THEN <<r.y2 + 1, r.y1 - 1>> ELSE <<r.y1, r.y2>>
    IN  [x1 |-> xs[1], y1 |-> ys[1], x2 |-> xs[2], y2 |-> ys[2]]

\* QRect.normalized() of Qt 6: a rectangle of negative width has its left and
\* right corners swapped, and the corners change from non-inclusive to
\* inclusive at the same time; likewise top and bottom.
normalized(r) ==
    LET xs == IF r.x2 < r.x1 THEN <<r.x2 + 1, r.x1 - 1>> ELSE <<r.x1, r.x2>>
        ys == IF r.y2 < r.y1 THEN <<r.y2 + 1, r.y1 - 1>> ELSE <<r.y1, r.y2>>
    IN  [x1 |-> xs[1], y1 |-> ys[1], x2 |-> xs[2], y2 |-> ys[2]]

\* QRect.width() / QRect.height(): inclusive corners.
RectWidth(r) == r.x2 - r.x1 + 1
RectHeight(r) == r.y2 - r.y1 + 1

\* The text of the size label: f"{rect.width()} x {rect.height()}px".
SizeLabel(p, q) ==
    LET rect == normalized(QRect(p, q))
    IN  <<RectWidth(rect), RectHeight(rect)>>

\* self.monitor = sct.monitors[1]: the primary monitor's origin, fixed at
\* construction.
MonitorLeft == 1
MonitorTop == 2
monitor == [left |-> MonitorLeft, top |-> MonitorTop]

\* ------------------------------------------------------- ScreenshotTool
NoEvent == "none"

\* After __init__ and the caller's show(): both points null, not selecting,
\* the overlay on screen, nothing scheduled, written or emitted.
InitOverlay ==
    /\ begin = QPoint0
    /\ end = QPoint0
    /\ is_selecting = FALSE
    /\ visible = TRUE
    /\ closed = FALSE
    /\ timers = <<>>
    /\ files = <<>>
    /\ emitted = <<>>
    /\ now = 0
    /\ fired = 0
    /\ lastEvent = NoEvent
    /\ aborted = FALSE

\* capture_screenshot, lines 157-161: width and height as the code computes
\* them, from the normalized rectangle's corners.
CaptureWidth(b, e) ==
    LET rect == normalized(QRect(b, e)) IN rect.x2 - rect.x1
CaptureHeight(b, e) ==
    LET rect == normalized(QRect(b, e)) IN rect.y2 - rect.y1

\* capture_screenshot, lines 156 and 163: the capture goes ahead only when
\* both points are truthy and width and height are positive.
CaptureProceeds(b, e) ==
    /\ Truthy(b) /\ Truthy(e)
    /\ ~(CaptureWidth(b, e) <= 0 \/ CaptureHeight(b, e) <= 0)

\* capture_screenshot, lines 169-178: the region handed to the deferred step.
CaptureRegion(b, e) ==
    LET rect == normalized(QRect(b, e))
    IN  [top    |-> rect.y1 + monitor.top,
         left   |-> rect.x1 + monitor.left,
         width  |-> CaptureWidth(b, e),
         height |-> CaptureHeight(b, e)]

\* capture_screenshot as a whole: the timers and the visibility it leaves.
\* When it goes ahead it hides the widget and schedules _finish_capture.
capture_screenshot ==
    IF CaptureProceeds(begin, end)
    THEN [timers |-> Append(timers, CaptureRegion(begin, end)), visible |-> FALSE]
    ELSE [timers |-> timers, visible |-> visible]

NoCapture == [timers |-> timers, visible |-> visible]

\* Mutant of mousePressEvent: the press does not reset the current point.
mousePressEvent_KeepsEnd(pos) ==
    /\ begin' = pos
    /\ is_selecting' = TRUE
    /\ UNCHANGED <<end, visible, closed, timers, files, emitted, now, fired, aborted>>

\* mousePressEvent
mousePressEvent(pos) ==
    /\ begin' = pos
    /\ end' = pos
    /\ is_selecting' = TRUE
    /\ UNCHANGED <<visible, closed, timers, files, emitted, now, fired, aborted>>

\* mouseMoveEvent
mouseMoveEvent(pos) ==
    /\ end' = IF is_selecting THEN pos ELSE end
    /\ UNCHANGED <<begin, is_selecting, visible, closed, timers, files, emitted,
                   now, fired, aborted>>

\* Mutant of mouseReleaseEvent: close() only on the capturing branch.
mouseReleaseEvent_CloseInsideIf ==
    /\ IF is_selecting /\ begin # end
       THEN /\ timers' = capture_screenshot.timers
            /\ visible' = FALSE
            /\ closed' = TRUE
       ELSE UNCHANGED <<timers, visible, closed>>
    /\ UNCHANGED <<begin, end, is_selecting, files, emitted, now, fired, aborted>>

\* mouseReleaseEvent
mouseReleaseEvent ==
    /\ IF is_selecting
       THEN LET after == IF begin # end THEN capture_screenshot ELSE NoCapture
            IN  /\ timers' = after.timers
                /\ visible' = FALSE
                /\ closed' = TRUE
       ELSE UNCHANGED <<timers, visible, closed>>
    /\ UNCHANGED <<begin, end, is_selecting, files, emitted, now, fired, aborted>>

Key_Escape == "Key_Escape"
Key_Return == "Key_Return"
Key_Enter == "Key_Enter"
Key_Other == "Key_A"
Keys == {Key_Escape, Key_Return, Key_Enter, Key_Other}

\* Mutant of keyPressEvent: Enter captures but leaves the overlay open.
keyPressEvent_EnterNoClose(key) ==
    /\ IF key = Key_Escape
       THEN /\ visible' = FALSE
            /\ closed' = TRUE
            /\ aborted' = TRUE
            /\ UNCHANGED timers
       ELSE IF (key = Key_Return \/ key = Key_Enter)
                /\ is_selecting /\ begin # end
       THEN /\ timers' = capture_screenshot.timers
            /\ visible' = capture_screenshot.visible
            /\ UNCHANGED <<closed, aborted>>
       ELSE UNCHANGED <<timers, visible, closed, aborted>>
    /\ UNCHANGED <<begin, end, is_selecting, files, emitted, now, fired>>

\* keyPressEvent
keyPressEvent(key) ==
    /\ IF key = Key_Escape
       THEN /\ visible' = FALSE
            /\ closed' = TRUE
            /\ aborted' = TRUE
            /\ UNCHANGED timers
       ELSE IF (key = Key_Return \/ key = Key_Enter)
                /\ is_selecting /\ begin # end
       THEN /\ timers' = capture_screenshot.timers
            /\ visible' = FALSE
            /\ closed' = TRUE
            /\ UNCHANGED aborted
       ELSE UNCHANGED <<timers, visible, closed, aborted>>
    /\ UNCHANGED <<begin, end, is_selecting, files, emitted, now, fired>>

\* _finish_capture: the steps inside the try block that can raise.
FailurePoints == {"grab", "makedirs", "to_png"}

\* _finish_capture(region), all went well: the region is grabbed, the file
\* screenshot_<now>.png is written, the signal is emitted with its path, and
\* the finally clause closes the widget.
FinishCaptureOk(region, t) ==
    /\ now' = t
    /\ files' = Append(files, [path |-> t, region |-> region, complete |-> TRUE])
    /\ emitted' = Append(emitted, t)
    /\ visible' = FALSE
    /\ closed' = TRUE

\* Mutant of FinishCaptureFailed: the signal is emitted from the finally
\* clause, so also when a step raised.
FinishCaptureFailed_EmitsAnyway(region, at, partial, t) ==
    /\ now' = IF at = "grab" THEN now ELSE t
    /\ files' = IF at = "to_png" /\ partial
                THEN Append(files, [path |-> t, region |-> region, complete |-> FALSE])
                ELSE files
    /\ emitted' = Append(emitted, t)
    /\ visible' = FALSE
    /\ closed' = TRUE

\* Mutant of FinishCaptureFailed: the signal is emitted before the file is
\* written, so a failing to_png comes after the emission.
FinishCaptureFailed_EmitBeforeWrite(region, at, partial, t) ==
    /\ now' = IF at = "grab" THEN now ELSE t
    /\ files' = IF at = "to_png" /\ partial
                THEN Append(files, [path |-> t, region |-> region, complete |-> FALSE])
                ELSE files
    /\ emitted' = IF at = "to_png" THEN Append(emitted, t) ELSE emitted
    /\ visible' = FALSE
    /\ closed' = TRUE

\* _finish_capture(region), a step raised: nothing is emitted; a failure
\* inside to_png may leave a truncated file behind; the finally clause still
\* closes the widget.
FinishCaptureFailed(region, at, partial, t) ==
    /\ now' = IF at = "grab" THEN now ELSE t
    /\ files' = IF at = "to_png" /\ partial
                THEN Append(files, [path |-> t, region |-> region, complete |-> FALSE])
                ELSE files
    /\ emitted' = emitted
    /\ visible' = FALSE
    /\ closed' = TRUE

\* datetime.now(): the wall clock never runs backwards.
ClockReadings == now .. MaxTime

\* ---- the overlay's steps: an input event is delivered, or a timer fires.
WouldSchedule(after) == Len(after) > Len(timers)
WithinCaptures(after) == WouldSchedule(after) => Len(timers) + fired < MaxCaptures

MousePress ==
    /\ \E pos \in Points : mousePressEvent(pos)
    /\ lastEvent' = "press"
    /\ UNCHANGED <<providerVars, extraVars>>

MouseMove ==
    /\ \E pos \in Points : mouseMoveEvent(pos)
    /\ lastEvent' = "move"
    /\ UNCHANGED <<providerVars, extraVars>>

MouseRelease ==
    /\ mouseReleaseEvent
    /\ WithinCaptures(timers')
    /\ lastEvent' = "release"
    /\ UNCHANGED <<providerVars, extraVars>>

KeyPress ==
    /\ \E key \in Keys :
          /\ keyPressEvent(key)
          /\ lastEvent' = key
    /\ WithinCaptures(timers')
    /\ UNCHANGED <<providerVars, extraVars>>

TimerOk ==
    /\ timers # <<>>
    /\ \E t \in ClockReadings : FinishCaptureOk(Head(timers), t)
    /\ timers' = Tail(timers)
    /\ fired' = fired + 1
    /\ lastEvent' = "timer_ok"
    /\ UNCHANGED <<begin, end, is_selecting, aborted>>
    /\ UNCHANGED <<providerVars, extraVars>>

TimerFailed ==
    /\ timers # <<>>
    /\ \E at \in FailurePoints, partial \in BOOLEAN, t \in ClockReadings :
          FinishCaptureFailed(Head(timers), at, partial, t)
    /\ timers' = Tail(timers)
    /\ fired' = fired + 1
    /\ lastEvent' = "timer_failed"
    /\ UNCHANGED <<begin, end, is_selecting, aborted>>
    /\ UNCHANGED <<providerVars, extraVars>>

NextOverlay ==
    \/ MousePress
    \/ MouseMove
    \/ MouseRelease
    \/ KeyPress
    \/ TimerOk
    \/ TimerFailed

\* ------------------------------------------------------------ AIProvider
\* Texts are sequences of characters; these are the texts a backend sends.
NL == "\n"
SP == " "
Whitespace == {NL, SP}
Texts ==
    { <<>>, <<NL>>, <<"x", NL, NL>>, <<NL, "x">>, <<SP, "x", SP>>,
      <<"x", SP, NL>> }

\* str.rstrip() and str.lstrip(), and str.strip(): both ends, all whitespace.
RECURSIVE rstrip(_)
rstrip(t) ==
    IF t # <<>> /\ t[Len(t)] \in Whitespace
    THEN rstrip(SubSeq(t, 1, Len(t) - 1))
    ELSE t
RECURSIVE lstrip(_)
lstrip(t) ==
    IF t # <<>> /\ t[1] \in Whitespace THEN lstrip(Tail(t)) ELSE t
strip(t) == lstrip(rstrip(t))

\* str.rstrip('\n')
RECURSIVE rstrip_newlines(_)
rstrip_newlines(t) ==
    IF t # <<>> /\ t[Len(t)] = NL
    THEN rstrip_newlines(SubSeq(t, 1, Len(t) - 1))
    ELSE t

\* The notifications a provider surfaces through the application object.
OutputReady(t) == [sig |-> "output_ready", text |-> t]
ReplaceText == [sig |-> "replace_text", text |-> <<"True">>]
ShowMessage == [sig |-> "show_message", text |-> <<"Content Blocked">>]
ErrorText == <<"An error occurred while streaming.">>

Variants == {"gemini", "openai"}

\* bool(self.close_requested)
FlagSet(v) == v = "True"

\* __init__ of either provider; the application's streaming setting.
InitProvider ==
    /\ variant \in Variants
    /\ streaming \in BOOLEAN
    /\ close_requested = IF variant = "gemini" THEN "False" ELSE "None"
    /\ pc = "idle"
    /\ blocked = FALSE
    /\ upstream = <<>>
    /\ chunk = <<>>
    /\ signals = <<>>
    /\ sent = <<>>
    /\ consumed = 0
    /\ exit = "none"
    /\ outcome = "none"
    /\ calls = 0
    /\ cancelSeen = "none"

\* What the backend holds for one request: a streamed response is a finite
\* sequence of fragments, a complete one is a single text.
Responses(isStream) ==
    IF isStream
    THEN UNION { [1 .. n -> Texts] : n \in 0 .. MaxFrags }
    ELSE { <<t>> : t \in Texts }

\* Mutant of GetResponseCreate: the flag is not cleared on entry.
GetResponseCreate_KeepsFlag(frags, isBlocked) ==
    /\ pc = "idle"
    /\ blocked' = isBlocked
    /\ upstream' = frags
    /\ sent' = frags
    /\ chunk' = <<>>
    /\ signals' = <<>>
    /\ consumed' = 0
    /\ exit' = "none"
    /\ outcome' = "none"
    /\ pc' = "created"
    /\ UNCHANGED <<variant, streaming, close_requested>>

\* get_response, up to and including the request: the flag is cleared and
\* generate_content / chat.completions.create returns a response object.
GetResponseCreate(frags, isBlocked) ==
    /\ pc = "idle"
    /\ close_requested' = "False"
    /\ blocked' = isBlocked
    /\ upstream' = frags
    /\ sent' = frags
    /\ chunk' = <<>>
    /\ signals' = <<>>
    /\ consumed' = 0
    /\ exit' = "none"
    /\ outcome' = "none"
    /\ pc' = "created"
    /\ UNCHANGED <<variant, streaming>>

\* get_response, the request itself raises (it is outside the try block):
\* the exception leaves get_response. An OpenAI-compatible backend reports a
\* content-filter rejection this way (Gemini reports it in the response's
\* prompt_feedback instead).
GetResponseCreateRaises(isBlocked) ==
    /\ pc = "idle"
    /\ isBlocked => variant = "openai"
    /\ close_requested' = "False"
    /\ blocked' = isBlocked
    /\ upstream' = <<>>
    /\ sent' = <<>>
    /\ chunk' = <<>>
    /\ signals' = <<>>
    /\ consumed' = 0
    /\ exit' = "none"
    /\ outcome' = "raised"
    /\ pc' = "idle"
    /\ UNCHANGED <<variant, streaming>>

\* Gemini15FlashProvider.get_response, lines 171-176: a blocked response
\* shows the message and returns; otherwise the loop is entered.
GeminiBlockCheck ==
    /\ pc = "created" /\ variant = "gemini"
    /\ IF blocked
       THEN /\ signals' = Append(signals, ShowMessage)
            /\ outcome' = "returned"
            /\ pc' = "idle"
       ELSE /\ pc' = "iterating"
            /\ UNCHANGED <<signals, outcome>>
    /\ UNCHANGED <<variant, streaming, close_requested, blocked, upstream,
                   chunk, sent, consumed, exit>>

\* OpenAICompatibleProvider.get_response, lines 288 and 307-310: the
\* streaming branch enters the loop; the other emits the stripped content,
\* calls replace_text(True) and returns.
OpenAIBranch ==
    /\ pc = "created" /\ variant = "openai"
    /\ IF streaming
       THEN /\ pc' = "iterating"
            /\ UNCHANGED <<signals, upstream, consumed, exit, outcome>>
       ELSE /\ signals' = signals \o <<OutputReady(strip(Head(upstream))), ReplaceText>>
            /\ upstream' = Tail(upstream)
            /\ consumed' = consumed + 1
            /\ exit' = "direct"
            /\ outcome' = "returned"
            /\ pc' = "idle"
    /\ UNCHANGED <<variant, streaming, close_requested, blocked, chunk, sent>>

\* "for chunk in response": the next fragment arrives.
NextChunk ==
    /\ pc = "iterating"
    /\ upstream # <<>>
    /\ chunk' = Head(upstream)
    /\ upstream' = Tail(upstream)
    /\ consumed' = consumed + 1
    /\ pc' = "chunk"
    /\ UNCHANGED <<variant, streaming, close_requested, blocked, signals, sent,
                   exit, outcome>>

\* "for chunk in response": the response is exhausted.
StopIteration ==
    /\ pc = "iterating"
    /\ upstream = <<>>
    /\ exit' = "exhausted"
    /\ pc' = "finally"
    /\ UNCHANGED <<variant, streaming, close_requested, blocked, upstream,
                   chunk, signals, sent, consumed, outcome>>

\* Mutant of StreamError: the exception is not caught and leaves
\* get_response.
StreamError_Propagates ==
    /\ pc = "iterating"
    /\ exit' = "error"
    /\ outcome' = "raised"
    /\ pc' = "idle"
    /\ UNCHANGED <<variant, streaming, close_requested, blocked, upstream,
                   chunk, signals, sent, consumed>>

\* "for chunk in response": the iteration raises; the except clause
\* surfaces the error fragment.
StreamError ==
    /\ pc = "iterating"
    /\ signals' = Append(signals, OutputReady(ErrorText))
    /\ exit' = "error"
    /\ pc' = "finally"
    /\ UNCHANGED <<variant, streaming, close_requested, blocked, upstream,
                   chunk, sent, consumed, outcome>>

\* Mutant of Emission: the chunk is emitted as it arrived.
Emission_Unstripped(c) ==
    IF variant = "openai" /\ c = <<>>
    THEN <<>>
    ELSE <<OutputReady(c)>>

\* The loop body's emission: Gemini emits every chunk's text, the OpenAI
\* variant only a chunk whose delta content is not empty; both strip the
\* trailing newlines.
Emission(c) ==
    IF variant = "openai" /\ c = <<>>
    THEN <<>>
    ELSE <<OutputReady(rstrip_newlines(c))>>

\* Mutant of LoopBody: "continue" in place of "break".
LoopBody_ContinueOnCancel ==
    /\ pc = "chunk"
    /\ IF FlagSet(close_requested)
       THEN /\ exit' = "cancelled"
            /\ pc' = "iterating"
            /\ UNCHANGED signals
       ELSE /\ signals' = signals \o Emission(chunk)
            /\ pc' = "iterating"
            /\ UNCHANGED exit
    /\ UNCHANGED <<variant, streaming, close_requested, blocked, upstream,
                   chunk, sent, consumed, outcome>>

\* The loop body: break when the flag is set, emit otherwise.
LoopBody ==
    /\ pc = "chunk"
    /\ IF FlagSet(close_requested)
       THEN /\ exit' = "cancelled"
            /\ pc' = "finally"
            /\ UNCHANGED signals
       ELSE /\ signals' = signals \o Emission(chunk)
            /\ pc' = "iterating"
            /\ UNCHANGED exit
    /\ UNCHANGED <<variant, streaming, close_requested, blocked, upstream,
                   chunk, sent, consumed, outcome>>

\* The finally clause: (OpenAI: response.close(),) the flag is cleared and
\* replace_text(True) is called; get_response returns.
Finally ==
    /\ pc = "finally"
    /\ close_requested' = "False"
    /\ signals' = Append(signals, ReplaceText)
    /\ outcome' = "returned"
    /\ pc' = "idle"
    /\ UNCHANGED <<variant, streaming, blocked, upstream, chunk, sent, consumed,
                   exit>>

\* cancel()
cancel ==
    /\ close_requested' = "True"
    /\ UNCHANGED <<variant, streaming, pc, blocked, upstream, chunk, signals,
                   sent, consumed, exit, outcome>>

\* ---- the provider's steps
GetResponse ==
    /\ calls < MaxCalls
    /\ calls' = calls + 1
    /\ \E isBlocked \in BOOLEAN :
          \/ \E frags \in Responses(streaming) : GetResponseCreate(frags, isBlocked)
          \/ GetResponseCreateRaises(isBlocked)
    /\ cancelSeen' = IF cancelSeen = "idle" THEN "absorbed" ELSE "none"
    /\ UNCHANGED <<overlayVars, configVars, chatVars, overlapVars>>

BlockCheck == GeminiBlockCheck /\ UNCHANGED <<calls, overlayVars, extraVars>>
Branch == OpenAIBranch /\ UNCHANGED <<calls, overlayVars, extraVars>>
Pull == NextChunk /\ UNCHANGED <<calls, overlayVars, extraVars>>
Exhausted == StopIteration /\ UNCHANGED <<calls, overlayVars, extraVars>>
Raised == StreamError /\ UNCHANGED <<calls, overlayVars, extraVars>>
Body == LoopBody /\ UNCHANGED <<calls, overlayVars, extraVars>>
Return == Finally /\ UNCHANGED <<calls, overlayVars, extraVars>>
Cancel ==
    /\ cancel
    /\ ~FlagSet(close_requested)
    /\ cancelSeen' = IF pc = "idle" THEN "idle" ELSE "during"
    /\ UNCHANGED <<calls, overlayVars, configVars, chatVars, overlapVars>>

NextProvider ==
    \/ GetResponse
    \/ BlockCheck
    \/ Branch
    \/ Pull
    \/ Exhausted
    \/ Raised
    \/ Body
    \/ Return
    \/ Cancel

\* ------------------------------------------ overlapping get_response calls
\* A second thread calls get_response on the same instance while the first
\* call may still be running: the two calls share self.close_requested and
\* the application's signals; each has its own response and loop variable.
InitOverlap ==
    /\ pc2 = "idle"
    /\ upstream2 = <<>>
    /\ chunk2 = <<>>
    /\ wire = <<>>

\* The notifications sigs as surfaced by call n.
Tagged(n, sigs) == [i \in 1 .. Len(sigs) |-> [call |-> n, sig |-> sigs[i]]]

\* The streamed responses the two overlapping requests receive.
OverlapTexts == {<<>>, <<"x", NL>>}
OverlapResponses == UNION { [1 .. n -> OverlapTexts] : n \in 0 .. MaxFrags }

\* A step of the first call beside the second: what the step adds to the
\* call's signals reaches the wire.
FirstCallSurfaces ==
    /\ wire' = wire \o Tagged(1, SubSeq(signals', Len(signals) + 1, Len(signals')))
    /\ UNCHANGED <<calls, pc2, upstream2, chunk2>>
    /\ UNCHANGED <<overlayVars, configVars, chatVars, cancelSeen>>

\* The first call starts: a streaming request that is neither blocked nor
\* refused.
FirstStart ==
    /\ calls = 0
    /\ calls' = 1
    /\ \E frags \in OverlapResponses : GetResponseCreate(frags, FALSE)
    /\ UNCHANGED <<overlayVars, extraVars>>

FirstBlockCheck == GeminiBlockCheck /\ FirstCallSurfaces
FirstBranch == OpenAIBranch /\ FirstCallSurfaces
FirstPull == NextChunk /\ FirstCallSurfaces
FirstExhausted == StopIteration /\ FirstCallSurfaces
FirstRaised == StreamError /\ FirstCallSurfaces
FirstBody == LoopBody /\ FirstCallSurfaces
FirstReturn == Finally /\ FirstCallSurfaces

\* What the second call leaves alone.
SecondCallKeeps ==
    /\ UNCHANGED <<variant, streaming, pc, blocked, upstream, chunk, signals,
                   sent, consumed, exit, outcome, calls>>
    /\ UNCHANGED <<overlayVars, configVars, chatVars, cancelSeen>>

\* The second call's get_response up to the loop: the flag is cleared, the
\* request returns a streamed response that is not blocked.
SecondStart ==
    /\ pc2 = "idle"
    /\ close_requested' = "False"
    /\ \E frags \in OverlapResponses : upstream2' = frags
    /\ pc2' = "iterating"
    /\ UNCHANGED <<chunk2, wire>>
    /\ SecondCallKeeps

\* "for chunk in response" of the second call.
SecondPull ==
    /\ pc2 = "iterating"
    /\ upstream2 # <<>>
    /\ chunk2' = Head(upstream2)
    /\ upstream2' = Tail(upstream2)
    /\ pc2' = "chunk"
    /\ UNCHANGED <<close_requested, wire>>
    /\ SecondCallKeeps

SecondExhausted ==
    /\ pc2 = "iterating"
    /\ upstream2 = <<>>
    /\ pc2' = "finally"
    /\ UNCHANGED <<close_requested, upstream2, chunk2, wire>>
    /\ SecondCallKeeps

SecondRaised ==
    /\ pc2 = "iterating"
    /\ wire' = wire \o Tagged(2, <<OutputReady(ErrorText)>>)
    /\ pc2' = "finally"
    /\ UNCHANGED <<close_requested, upstream2, chunk2>>
    /\ SecondCallKeeps

\* The loop body of the second call: it reads the same flag.
SecondBody ==
    /\ pc2 = "chunk"
    /\ IF FlagSet(close_requested)
       THEN /\ pc2' = "finally"
            /\ UNCHANGED wire
       ELSE /\ wire' = wire \o Tagged(2, Emission(chunk2))
            /\ pc2' = "iterating"
    /\ UNCHANGED <<close_requested, upstream2, chunk2>>
    /\ SecondCallKeeps

\* The finally clause of the second call.
SecondReturn ==
    /\ pc2 = "finally"
    /\ close_requested' = "False"
    /\ wire' = wire \o Tagged(2, <<ReplaceText>>)
    /\ pc2' = "done"
    /\ UNCHANGED <<upstream2, chunk2>>
    /\ SecondCallKeeps

NextOverlap ==
    \/ FirstStart
    \/ FirstBlockCheck
    \/ FirstBranch
    \/ FirstPull
    \/ FirstExhausted
    \/ FirstRaised
    \/ FirstBody
    \/ FirstReturn
    \/ SecondStart
    \/ SecondPull
    \/ SecondExhausted
    \/ SecondRaised
    \/ SecondBody
    \/ SecondReturn
    \/ Cancel

\* ----------------------------------------------- settings and load_config
\* The settings each provider class constructs.
SettingNames(v) ==
    IF v = "gemini"
    THEN {"api_key"}
    ELSE {"api_key", "api_base", "api_organisation", "api_project", "api_model"}

\* The default_value argument each TextSetting is constructed with; api_key
\* is constructed without one (None).
DefaultArg(name) ==
    CASE name = "api_key"          -> "None"
      [] name = "api_base"         -> "https://api.openai.com/v1"
      [] name = "api_organisation" -> ""
      [] name = "api_project"      -> ""
      [] name = "api_model"        -> "gpt-4o-mini"

\* AIProviderSetting.__init__: default_value if default_value else "".
default_value(name) ==
    IF DefaultArg(name) \in {"None", ""} THEN "" ELSE DefaultArg(name)

\* An attribute load_config has not set yet does not exist.
Unset == "unset"

\* self.model = None / self.client = None
NoHandle == [kind |-> "None"]

\* The values a configuration holds for a setting, or no entry at all.
ConfigValues == {"k1", "k2"}
Absent == "absent"
Configs(v) == [SettingNames(v) -> ConfigValues \cup {Absent}]

\* After __init__: no setting attribute exists, every TextSetting holds the
\* default_value argument as internal_value, and there is no handle.
InitConfig ==
    /\ attrs = [n \in SettingNames(variant) |-> Unset]
    /\ stored = [n \in SettingNames(variant) |-> DefaultArg(n)]
    /\ handle = NoHandle
    /\ replaced = NoHandle
    /\ loads = 0

\* after_load: the handle built from the attributes just loaded.
after_load(v, a) ==
    IF v = "gemini"
    THEN [kind |-> "model", api_key |-> a["api_key"]]
    ELSE [kind |-> "client", api_key |-> a["api_key"],
          base_url |-> a["api_base"],
          organization |-> a["api_organisation"],
          project |-> a["api_project"]]

\* load_config(config): a setting found in config sets the attribute and the
\* setting's value; a setting not found sets the attribute to the default
\* and leaves the setting's value alone; then after_load assigns the handle.
load_config(config) ==
    /\ attrs' = [n \in SettingNames(variant) |->
                    IF config[n] # Absent THEN config[n] ELSE default_value(n)]
    /\ stored' = [n \in SettingNames(variant) |->
                    IF config[n] # Absent THEN config[n] ELSE stored[n]]
    /\ replaced' = handle
    /\ handle' = after_load(variant, attrs')

\* before_load
before_load ==
    /\ handle' = NoHandle
    /\ UNCHANGED <<attrs, stored, replaced>>

LoadConfig ==
    /\ loads < MaxLoads
    /\ \E config \in Configs(variant) : load_config(config)
    /\ loads' = loads + 1
    /\ UNCHANGED <<overlayVars, providerVars, chatVars, overlapVars, cancelSeen>>

BeforeLoad ==
    /\ before_load
    /\ UNCHANGED <<loads, overlayVars, providerVars, chatVars, overlapVars, cancelSeen>>

NextConfig ==
    \/ LoadConfig
    \/ BeforeLoad

\* -------------------------------------- ImageAnalysisWindow, analyze_image
\* Screenshot paths are named by the second in their file name.
Paths == 0 .. MaxTime

\* What the user has typed into the input field when a question is sent.
TypedTexts == {<<>>, <<SP>>, <<"q">>, <<SP, "r">>}

\* The texts a backend answers an image question with.
Answers == {<<"a">>, <<"b">>}

\* Entries of the chat history.
UserEntry(q) == [speaker |-> "You", text |-> q]
Placeholder == [speaker |-> "pending", text |-> <<"AI is analyzing the image...">>]
AIEntry(t) == [speaker |-> "AI", text |-> t]

\* Values a Python call hands back.
PyNone == [type |-> "NoneType", text |-> <<>>]
PyStr(t) == [type |-> "str", text |-> t]

\* f"Error analyzing image: {str(e)}"
ErrorString(reason) == <<"Error analyzing image: ">> \o reason

NoAnalysis == [failed |-> FALSE, raised |-> FALSE, returned |-> PyNone, text |-> <<>>]

\* No window is open, nothing has been asked.
InitChat ==
    /\ windows = <<>>
    /\ placeholderMatches \in BOOLEAN
    /\ forwarded = <<>>
    /\ lastAnalysis = NoAnalysis
    /\ asked = 0

\* How the body of analyze_image's try block can end: with the answer's
\* text, or with an exception raised while the image is opened, while the
\* handle is used (it is None before load_config), by the block check
\* (Gemini only) or by the request.
AnalysisOutcomes ==
    LET failures ==
            {[ok |-> FALSE, text |-> <<"unreadable">>]}
            \cup (IF handle = NoHandle
                  THEN {[ok |-> FALSE, text |-> <<"no handle">>]}
                  ELSE {[ok |-> FALSE, text |-> <<"request failed">>]}
                       \cup (IF variant = "gemini"
                             THEN {[ok |-> FALSE, text |-> <<"blocked">>]}
                             ELSE {}))
        answers ==
            IF handle = NoHandle THEN {}
            ELSE {[ok |-> TRUE, text |-> a] : a \in Answers}
    IN  failures \cup answers

\* add_ai_response(response) on window target of ws: the placeholder markup
\* is replaced in the history's HTML, which removes the placeholder entries
\* where the markup occurs verbatim, and the AI entry is appended.
add_ai_response(ws, target, response) ==
    LET history == ws[target].transcript
        cleaned == IF placeholderMatches
                   THEN SelectSeq(history, LAMBDA e : e # Placeholder)
                   ELSE history
    IN  [ws EXCEPT ![target].transcript = Append(cleaned, AIEntry(response))]

\* analyze_image(screenshot_path, prompt) with the try block ending as
\* ending: the answer, or the error string, goes to the analysis window
\* the loop over QApplication.topLevelWidgets() meets first (target); the
\* method has no return statement.
analyze_image(ws, target, ending) ==
    LET shown == IF ending.ok THEN ending.text ELSE ErrorString(ending.text)
    IN  [windows  |-> add_ai_response(ws, target, shown),
         analysis |-> [failed |-> ~ending.ok, raised |-> FALSE,
                       returned |-> PyNone, text |-> shown]]

\* send_message() of window w with typed in the input field: both signals
\* connected to it pass no prompt, so the question is the stripped input.
\* An empty question returns at once; otherwise the user entry and the
\* placeholder are appended and the provider's analyze_image is called.
send_message(w, typed, target, ending) ==
    LET question == strip(typed)
        history == windows[w].transcript
        asking == [windows EXCEPT ![w].transcript =
                      history \o <<UserEntry(question), Placeholder>>]
        result == analyze_image(asking, target, ending)
    IN  IF question = <<>>
        THEN UNCHANGED <<windows, forwarded, lastAnalysis, asked>>
        ELSE /\ windows' = result.windows
             /\ forwarded' = Append(forwarded, [window |-> w,
                                                path |-> windows[w].path,
                                                prompt |-> question])
             /\ lastAnalysis' = result.analysis
             /\ asked' = asked + 1

\* handle_screenshot(screenshot_path): the listener constructs and shows an
\* ImageAnalysisWindow; __init__ builds the widgets and sends nothing.
handle_screenshot(path) ==
    /\ windows' = Append(windows, [path |-> path, transcript |-> <<>>])
    /\ UNCHANGED <<forwarded, lastAnalysis, asked>>

HandleScreenshot ==
    /\ Len(windows) < MaxWindows
    /\ \E path \in Paths : handle_screenshot(path)
    /\ UNCHANGED <<placeholderMatches, overlayVars, providerVars, configVars, overlapVars, cancelSeen>>

SendMessage ==
    /\ asked < MaxQuestions
    /\ \E w \in 1 .. Len(windows), typed \in TypedTexts,
          target \in 1 .. Len(windows), ending \in AnalysisOutcomes :
          send_message(w, typed, target, ending)
    /\ UNCHANGED <<placeholderMatches, overlayVars, providerVars, configVars, overlapVars, cancelSeen>>

NextChat ==
    \/ HandleScreenshot
    \/ SendMessage

\* ------------------------------------------------------- specifications
\* The overlay alone, beside a provider that stays as constructed.
InitOverlayAlone ==
    /\ InitOverlay /\ InitProvider /\ variant = "gemini" /\ ~streaming
    /\ InitConfig /\ InitChat /\ placeholderMatches /\ InitOverlap

SpecOverlay == InitOverlayAlone /\ [][NextOverlay]_vars

\* One provider instance alone, beside an overlay that stays as constructed.
InitProviderAlone ==
    InitProvider /\ InitOverlay /\ InitConfig /\ InitChat /\ placeholderMatches /\ InitOverlap

SpecProvider == InitProviderAlone /\ [][NextProvider]_vars

\* One provider instance being configured.
InitConfigAlone ==
    /\ InitProvider /\ ~streaming /\ InitOverlay /\ InitConfig
    /\ InitChat /\ placeholderMatches /\ InitOverlap

SpecConfig == InitConfigAlone /\ [][NextConfig]_vars

\* The analysis windows beside one provider, which is as constructed or has
\* been configured once with an empty configuration.
InitChatAlone ==
    /\ InitProvider /\ ~streaming /\ InitOverlay /\ InitChat /\ InitOverlap
    /\ \/ InitConfig
       \/ /\ attrs = [n \in SettingNames(variant) |-> default_value(n)]
          /\ stored = [n \in SettingNames(variant) |-> DefaultArg(n)]
          /\ handle = after_load(variant, attrs)
          /\ replaced = NoHandle
          /\ loads = 1

SpecChat == InitChatAlone /\ [][NextChat]_vars

\* One provider instance with streaming enabled, called from two threads.
InitOverlapAlone ==
    /\ InitProvider /\ streaming /\ InitOverlay /\ InitConfig
    /\ InitChat /\ placeholderMatches /\ InitOverlap

SpecOverlap == InitOverlapAlone /\ [][NextOverlap]_vars

\* ====================================================== overlay claims
Last(s) == s[Len(s)]

\* The region the selection spanned by anchor a and current point c names:
\* the normalized rectangle's top-left moved by the monitor origin, and the
\* normalized rectangle's width and height (what the size label shows).
SelectionRegion(a, c) ==
    LET rect == normalized(QRect(a, c))
    IN  [top    |-> rect.y1 + monitor.top,
         left   |-> rect.x1 + monitor.left,
         width  |-> RectWidth(rect),
         height |-> RectHeight(rect)]

\* C1: after a pointer-up that ends a drag whose anchor differs from its
\* current point, a capture is under way for the region whose origin is the
\* normalized rectangle's top-left plus the monitor origin and whose size is
\* the normalized rectangle's width by height.
C1_DragCapturesSelection ==
    (lastEvent = "release" /\ is_selecting /\ begin # end) =>
        /\ timers # <<>>
        /\ Last(timers) = SelectionRegion(begin, end)

\* C2: while no pointer-down has occurred nothing is scheduled, written or
\* emitted; and a pointer-up or Enter that arrives with the anchor equal to
\* the current point (in particular right after the pointer-down) schedules,
\* writes and emits nothing.
C2_NoSelectionNoOutput ==
    /\ [](~is_selecting => (timers = <<>> /\ files = <<>> /\ emitted = <<>>))
    /\ [][((MouseRelease \/ KeyPress) /\ (begin = end \/ lastEvent = "press"))
            => UNCHANGED <<timers, files, emitted>>]_vars

C2_Witness ==
    /\ lastEvent = "release" /\ is_selecting /\ begin = end
    /\ closed /\ timers = <<>> /\ files = <<>> /\ emitted = <<>>

\* C3: after a pointer-up handled while selecting, and after the deferred
\* capture step has run (whether it succeeded or failed), the overlay is
\* closed.
C3_ReleaseClosesOverlay ==
    ((lastEvent = "release" /\ is_selecting)
        \/ lastEvent \in {"timer_ok", "timer_failed"})
    => (closed /\ ~visible)

C3_Witness ==
    /\ lastEvent = "release" /\ is_selecting
    /\ begin # end /\ ~CaptureProceeds(begin, end)
    /\ timers = <<>> /\ fired = 0 /\ ~aborted /\ closed

\* C4: an Escape key press closes the overlay, and once Escape has been
\* pressed no file is written and no completion signal is emitted.
C4_EscapeProducesNothing ==
    /\ [](lastEvent = Key_Escape => closed)
    /\ [][aborted => (files' = files /\ emitted' = emitted)]_vars

\* C5: with a valid selection (selecting, anchor differs from the current
\* point) every Enter/Return step is a step of the pointer-up handler and
\* every pointer-up step is a step of the Enter and of the Return handler.
C5_EnterIsRelease ==
    /\ [][((\E key \in {Key_Return, Key_Enter} :
                keyPressEvent(key) /\ lastEvent' = key)
            /\ is_selecting /\ begin # end) => mouseReleaseEvent]_vars
    /\ [][(MouseRelease /\ is_selecting /\ begin # end)
            => (keyPressEvent(Key_Return) /\ keyPressEvent(Key_Enter))]_vars

C5_Witness ==
    /\ lastEvent = Key_Enter /\ is_selecting /\ begin # end
    /\ CaptureProceeds(begin, end)
    /\ Len(timers) = 1 /\ fired = 0 /\ closed /\ ~visible

\* C6: a deferred capture step that fails emits no completion signal,
\* schedules no further attempt and leaves the overlay closed.
C6_FailedCaptureAbandoned ==
    [][TimerFailed =>
        /\ emitted' = emitted
        /\ timers' = Tail(timers)
        /\ closed' /\ ~visible']_vars

C6_Witness ==
    /\ lastEvent = "timer_failed" /\ fired = 1
    /\ timers = <<>> /\ emitted = <<>> /\ closed

\* ===================================================== provider claims
\* The output fragment notifications among the notifications surfaced.
Outputs(sigs) == SelectSeq(sigs, LAMBDA r : r.sig = "output_ready")
Notices(sigs) == SelectSeq(sigs, LAMBDA r : r.sig = "show_message")

\* A text without its trailing newlines: its prefix up to the last
\* character that is not a newline.
WithoutTrailingNewlines(t) ==
    LET keep == { i \in 1 .. Len(t) : t[i] # NL }
        n == IF keep = {} THEN 0 ELSE CHOOSE i \in keep : \A j \in keep : j <= i
    IN  SubSeq(t, 1, n)

\* A text without leading and trailing whitespace: from its first to its
\* last character that is not whitespace.
Trimmed(t) ==
    LET keep == { i \in 1 .. Len(t) : t[i] \notin Whitespace }
    IN  IF keep = {} THEN <<>>
        ELSE SubSeq(t, CHOOSE i \in keep : \A j \in keep : i <= j,
                       CHOOSE i \in keep : \A j \in keep : j <= i)

\* A streaming call that ran to the end of the response: not blocked, no
\* error, the cancel flag never observed.
StreamedToEnd ==
    /\ pc = "idle" /\ outcome = "returned"
    /\ streaming /\ ~blocked /\ exit = "exhausted"

\* C7: a streaming call that ran to the end of a response of non-empty
\* fragments f1..fn has surfaced exactly n output notifications, the i-th
\* being fi without its trailing newlines, and then one completion.
C7_StreamRelaysFragments ==
    (StreamedToEnd /\ \A i \in 1 .. Len(sent) : sent[i] # <<>>) =>
        /\ Len(signals) = Len(sent) + 1
        /\ \A i \in 1 .. Len(sent) :
              signals[i] = OutputReady(WithoutTrailingNewlines(sent[i]))
        /\ signals[Len(sent) + 1] = ReplaceText

C7_Witness ==
    /\ StreamedToEnd
    /\ Len(sent) = 2 /\ sent[1] = <<"x", SP, NL>> /\ sent[2] = <<NL, "x">>
    /\ Len(signals) = 3

\* C8: a call with streaming disabled that returned normally has surfaced
\* exactly one output notification, the full response trimmed of leading
\* and trailing whitespace.
C8_CompleteResponseTrimmed ==
    (pc = "idle" /\ outcome = "returned" /\ ~streaming /\ ~blocked
        /\ exit \in {"exhausted", "direct"})
    => Outputs(signals) = <<OutputReady(Trimmed(sent[1]))>>

\* C9: the step in which the loop observes the cancel flag surfaces no
\* fragment; from then on the call is in its finally clause or over, and
\* it surfaces no fragment and consumes nothing from the backend.
C9_CancelStopsStream ==
    /\ [](exit = "cancelled" => pc \in {"finally", "idle"})
    /\ [][exit' = "cancelled" =>
            /\ Outputs(signals') = Outputs(signals)
            /\ exit = "cancelled" => (consumed' = consumed /\ upstream' = upstream)]_vars

C9_Witness ==
    /\ exit = "cancelled" /\ pc = "idle" /\ outcome = "returned"
    /\ consumed = 1 /\ upstream # <<>> /\ Outputs(signals) = <<>>

\* C10: a call whose request the backend's content filter rejected has,
\* once over, surfaced one blocked-content notice and no output fragment.
C10_BlockedSurfacesNotice ==
    (pc = "idle" /\ outcome # "none" /\ blocked) =>
        /\ Len(Notices(signals)) = 1
        /\ Outputs(signals) = <<>>

\* The output notifications the first k fragments of the response give
\* rise to: each fragment without its trailing newlines, the OpenAI variant
\* passing over fragments without content.
SurfacedFor(k) ==
    LET kept == SelectSeq(SubSeq(sent, 1, k),
                          LAMBDA f : variant = "gemini" \/ f # <<>>)
    IN  [i \in 1 .. Len(kept) |-> OutputReady(WithoutTrailingNewlines(kept[i]))]

\* C11: once the iteration of the response has raised, the call is in its
\* finally clause or has returned (it does not raise), the outputs are
\* those of the fragments consumed before the error followed by exactly one
\* error fragment, and the call pulls nothing more and issues no request.
C11_StreamErrorSurfacedOnce ==
    /\ [](exit = "error" =>
            /\ pc \in {"finally", "idle"}
            /\ pc = "idle" => outcome = "returned"
            /\ Outputs(signals) = SurfacedFor(consumed) \o <<OutputReady(ErrorText)>>)
    /\ [][(exit = "error" /\ exit' = "error") =>
            (consumed' = consumed /\ sent' = sent /\ upstream' = upstream)]_vars

C11_Witness ==
    /\ exit = "error" /\ pc = "idle" /\ outcome = "returned" /\ streaming
    /\ consumed = 1 /\ upstream # <<>>
    /\ Len(Outputs(signals)) = 2

\* C15: normalizing the normalized selection rectangle gives the same
\* rectangle, whatever anchor and current point the events have left.
C15_NormalizationIdempotent ==
    LET rect == normalized(QRect(begin, end))
    IN  normalized(rect) = rect

\* A capture was scheduled for a selection dragged from right to left, whose
\* corners normalization had to swap.
C15_Witness ==
    /\ lastEvent = "release" /\ Len(timers) = 1 /\ fired = 0
    /\ begin.x > end.x
    /\ normalized(QRect(begin, end)) # QRect(begin, end)

\* C16: a capture runs in the order hide, deferred callback, pixel read,
\* file write, emission: a callback is pending only while the overlay is
\* hidden; files are written and signals emitted only by a firing callback,
\* with the overlay hidden; and a step that emits has written, complete, the
\* file of the callback's region whose path the signal carries.
C16_CaptureOrder ==
    /\ [](timers # <<>> => ~visible)
    /\ [][(files' # files \/ emitted' # emitted) =>
            (~visible /\ timers # <<>> /\ timers' = Tail(timers))]_vars
    /\ [][emitted' # emitted =>
            (/\ emitted' = Append(emitted, Last(emitted'))
             /\ files' = Append(files, [path     |-> Last(emitted'),
                                        region   |-> Head(timers),
                                        complete |-> TRUE]))]_vars
    /\ [](\A i \in 1 .. Len(emitted) :
            \E j \in 1 .. Len(files) :
                files[j].path = emitted[i] /\ files[j].complete)

C16_Witness ==
    /\ lastEvent = "timer_ok" /\ fired = 1 /\ ~visible
    /\ Len(emitted) = 1 /\ Len(files) = 1
    /\ files[1].path = emitted[1] /\ files[1].complete

\* C17: at most one deferred capture callback is outstanding, and the
\* event that follows a closing pointer-up or Enter schedules no capture of
\* its own, so that one drag-release gives one file and at most one emission.
C17_SingleDeferredCapture ==
    /\ [](Len(timers) <= 1)
    /\ [][Len(timers') > Len(timers) =>
            ~(closed /\ lastEvent \in {"release", Key_Return, Key_Enter})]_vars

\* C18: the selecting flag is false initially, is raised only by a
\* pointer-down, and is false whenever the overlay has been closed by a
\* pointer-up, Enter or Escape.
C18_SelectingFlagTwoState ==
    /\ [](lastEvent = NoEvent => ~is_selecting)
    /\ [][(is_selecting' /\ ~is_selecting) => lastEvent' = "press"]_vars
    /\ []((closed /\ lastEvent \in {"release", Key_Return, Key_Enter, Key_Escape})
            => ~is_selecting)

\* ======================================================== config claims
\* C13: whenever after_load establishes a handle, the previous handle has
\* been torn down: the handle it overwrites is None.
C13_TeardownBeforeReload ==
    replaced = NoHandle

\* ========================================================== chat claims
\* C12: an analyze_image call whose analysis failed did not raise and
\* handed the error string back to its caller.
C12_AnalyzeImageReturnsError ==
    lastAnalysis.failed =>
        /\ ~lastAnalysis.raised
        /\ lastAnalysis.returned = PyStr(lastAnalysis.text)

\* C19: every analysis window the listener has opened has had a question
\* forwarded with its image path, whether or not the user has typed
\* anything; and every non-empty question the user sends is forwarded to
\* analyze_image with the asking window's image path.
C19_QuestionsForwarded ==
    /\ [](\A w \in 1 .. Len(windows) :
            \E i \in 1 .. Len(forwarded) :
                forwarded[i].window = w /\ forwarded[i].path = windows[w].path)
    /\ [][asked' > asked =>
            (/\ Len(forwarded') = Len(forwarded) + 1
             /\ SubSeq(forwarded', 1, Len(forwarded)) = forwarded
             /\ Last(forwarded').prompt # <<>>
             /\ Last(forwarded').path = windows[Last(forwarded').window].path)]_vars

\* The (speaker, text) entries of a transcript: what the user asked and what
\* the AI answered, without the placeholder shown while an answer is awaited.
Entries(t) == SelectSeq(t, LAMBDA e : e # Placeholder)

\* C20: every step leaves the entries of every window unchanged, except a
\* non-empty question sent from a window, which appends to that window's
\* entries the user entry of the question and then one AI entry.
C20_TranscriptAppendOnly ==
    [][\A w \in 1 .. Len(windows) :
          LET old == Entries(windows[w].transcript)
              new == Entries(windows'[w].transcript)
          IN  IF asked' > asked /\ Last(forwarded').window = w
              THEN /\ Len(new) = Len(old) + 2
                   /\ SubSeq(new, 1, Len(old)) = old
                   /\ new[Len(old) + 1] = UserEntry(Last(forwarded').prompt)
                   /\ new[Len(old) + 2].speaker = "AI"
              ELSE new = old]_vars

\* ======================================================= overlap claims
\* The calls whose output notifications reached the wire, in order.
OutputCalls ==
    LET outs == SelectSeq(wire, LAMBDA n : n.sig.sig = "output_ready")
    IN  [i \in 1 .. Len(outs) |-> outs[i].call]

\* C14: the two calls are never inside get_response at the same time, no
\* output of one call lies between two outputs of the other, and a second
\* call that starts while the first is running with the cancel flag set
\* leaves the flag set.
C14_SingleActiveStream ==
    /\ [](~(pc # "idle" /\ pc2 \notin {"idle", "done"}))
    /\ [](\A i, j, k \in 1 .. Len(OutputCalls) :
            (i < j /\ j < k /\ OutputCalls[i] = OutputCalls[k])
                => OutputCalls[j] = OutputCalls[i])
    /\ [][(pc2 = "idle" /\ pc2' # "idle" /\ pc # "idle" /\ FlagSet(close_requested))
            => FlagSet(close_requested')]_vars

\* ================================================== cancel-flag claims
\* A get_response call has just been entered.
CallEntered == calls' > calls

\* The parts of the statement about the next call: entry clears the flag
\* whatever it was; a call during which no cancel() came is not cut short,
\* so once its loop has ended every fragment has been surfaced.
StaleCancelHasNoEffect ==
    /\ [][CallEntered => close_requested' = "False"]_vars
    /\ [](cancelSeen \in {"absorbed", "none"} => exit # "cancelled")
    /\ []((cancelSeen \in {"absorbed", "none"} /\ exit = "exhausted")
            => Outputs(signals) = SurfacedFor(Len(sent)))

AttrsAlone(c) ==
    [n \in SettingNames(variant) |-> IF c[n] # Absent THEN c[n] ELSE default_value(n)]
StoredAlone(c) ==
    [n \in SettingNames(variant) |-> IF c[n] # Absent THEN c[n] ELSE DefaultArg(n)]

\* C22: whatever was loaded before, a load_config(c) leaves the attributes
\* and the stored values load_config(c) alone would leave; and once a
\* configuration is loaded each setting's stored value equals the attribute
\* of its name.
C22_LastConfigDecides ==
    /\ [][loads' > loads =>
            \A c \in Configs(variant) :
                attrs' = AttrsAlone(c) => stored' = StoredAlone(c)]_vars
    /\ [](loads >= 1 => \A n \in SettingNames(variant) : stored[n] = attrs[n])

====
